---- MODULE Spec2Model ----
(***************************************************************************)
(* A model of gen-boot-artifacts.py: the DtsBuilder text emitter, the      *)
(* FitImage action that assembles an image-tree descriptor with it and     *)
(* hands it to mkimage, and the gen_tftp driver that runs a profile's      *)
(* actions in order.                                                       *)
(*                                                                         *)
(* Text is modelled character by character: a string is a sequence of      *)
(* one-character strings, and the sink f is the sequence of the lines      *)
(* written to it (each element is one line, its trailing newline implied). *)
(***************************************************************************)
EXTENDS Integers, Sequences, FiniteSets, TLC

VARIABLES
    f,          \* DtsBuilder.f: the lines written to the sink so far
    nesting,    \* DtsBuilder._nesting
    scopes,     \* client of the builder: the stack of active `with node()` scopes
    raised,     \* client of the builder: an error is propagating out of a body
    manual,     \* client of the builder: open_node/close_node were called directly
    val,        \* client of the builder: the string value it emits
    props,      \* log of the string_prop / incbin_prop calls: line index and argument
    profile,    \* gen_tftp: the selected Profile (name, arch, tftp)
    sysroot,    \* args.sysroot
    links,      \* filesystem: whether the sysroot's directories are symlinked
    idx,        \* gen_tftp: index of the action of profile.tftp being executed
    pc,         \* position inside the current action's execute()
    ip,         \* FitImage._build_its: index of the next statement
    tmp,        \* FitImage.execute: name of the live temporary directory, or NoTmp
    tmpFiles,   \* the files inside the temporary directory
    outFiles,   \* the output location: set of <<path, "complete" | "partial">>
    outDirs,    \* the output location: directories created
    exc,        \* the exception propagating out of the current action, or "none"
    status,     \* "running" | "done" | "failed"
    produced    \* log of the descriptors _build_its returned, with their inputs

builderVars == <<f, nesting>>
clientVars  == <<scopes, raised, manual, val, props>>
runVars     == <<profile, sysroot, links, idx, pc, ip, tmp, tmpFiles, outFiles,
                 outDirs, exc, status, produced>>
vars        == <<f, nesting, scopes, raised, manual, val, props, profile, sysroot, links,
                 idx, pc, ip, tmp, tmpFiles, outFiles, outDirs, exc, status,
                 produced>>

(***************************************************************************)
(* Bounds of the model.                                                    *)
(***************************************************************************)
\* longest string value handed to string_prop / incbin_prop by the client
MaxValLen == 2
\* most lines the client of the builder writes
MaxLines == 4
\* most actions in a profile's tftp list
MaxActions == 2

(***************************************************************************)
(* Strings.                                                                *)
(***************************************************************************)
\* a string literal as its sequence of characters
Chars(s) == [i \in 1..Len(s) |-> SubSeq(s, i, i)]

\* the string literals of the source and of the inputs, as character sequences
S_Assign == Chars(" = ")
S_IncbinBegin == Chars(" = /incbin/(")
S_CellsBegin == Chars(" = <")
S_OpenMarker == Chars(" {")
S_address_cells == Chars("#address-cells")
S_IncbinEnd == Chars(");")
S_CommaSpace == Chars(", ")
S_Root == Chars("/")
S_DtsV1 == Chars("/dts-v1/;")
S_Store == Chars("/store")
S_TmpA == Chars("/tmp/tmpa")
S_TmpB == Chars("/tmp/tmpb")
S_Cwd == Chars("/w")
S_HexPrefix == Chars("0x")
S_Semicolon == Chars(";")
S_CellsEnd == Chars(">;")
S_FDT == Chars("FDT")
S_ManagarmFitImageFor == Chars("Managarm FIT image for ")
S_ManagarmInitrd == Chars("Managarm initrd")
S_ManagarmOn == Chars("Managarm on ")
S_ManagarmPrekernel == Chars("Managarm prekernel")
S_aarch64 == Chars("aarch64")
S_arch == Chars("arch")
S_BootInitrdCpio == Chars("boot/initrd.cpio")
S_BpiF3 == Chars("bpi-f3")
S_BpiF3Itb == Chars("bpi-f3.itb")
S_CmdlineTxt == Chars("cmdline.txt")
S_compression == Chars("compression")
S_configurations == Chars("configurations")
S_data == Chars("data")
S_default == Chars("default")
S_description == Chars("description")
S_entry == Chars("entry")
S_fdt == Chars("fdt")
S_flat_dt == Chars("flat_dt")
S_ImageIts == Chars("image.its")
S_images == Chars("images")
S_InitrdCpio == Chars("initrd.cpio")
S_kernel == Chars("kernel")
S_linux == Chars("linux")
S_load == Chars("load")
S_n == Chars("n")
S_none == Chars("none")
S_os == Chars("os")
S_out == Chars("out")
S_overlays == Chars("overlays")
S_p == Chars("p")
S_ramdisk == Chars("ramdisk")
S_raspi4 == Chars("raspi4")
S_riscv == Chars("riscv")
S_riscv64 == Chars("riscv64")
S_serial == Chars("serial")
S_type == Chars("type")
S_EirVirtBin == Chars("usr/managarm/bin/eir-virt.bin")
S_K1Dtb == Chars("usr/managarm/devicetree/k1-x_deb1.dtb")
S_HighperiDtbo == Chars("usr/managarm/devicetree/overlays/highperi.dtbo")
S_CloseMarker == Chars("};")

QUOTE == "\""
BACKSLASH == "\\"

\* " " * n  (Python yields the empty string for n <= 0)
Spaces(n) == [i \in 1..n |-> " "]

\* DTS_TRANS = str.maketrans({'"': '\\"'}): the replacement of one character
DTS_TRANS(c) == IF c = QUOTE THEN <<BACKSLASH, QUOTE>> ELSE <<c>>

\* s.translate(DTS_TRANS)
RECURSIVE Translate(_)
Translate(s) == IF s = <<>> THEN <<>> ELSE DTS_TRANS(Head(s)) \o Translate(Tail(s))

\* the digits of n >= 0 in the given base, lowercase
Digit(d) == SubSeq("0123456789abcdef", d + 1, d + 1)
RECURSIVE Digits(_, _)
Digits(n, base) ==
    IF n < base THEN <<Digit(n)>> ELSE Append(Digits(n \div base, base), Digit(n % base))

\* f"{c:#x}"
FormatHex(c) == S_HexPrefix \o Digits(c, 16)
\* str(c)
FormatDec(c) == Digits(c, 10)

\* ", ".join(parts)
RECURSIVE Join(_)
Join(parts) ==
    IF parts = <<>> THEN <<>>
    ELSE IF Len(parts) = 1 THEN parts[1]
    ELSE parts[1] \o S_CommaSpace \o Join(Tail(parts))

(***************************************************************************)
(* DtsBuilder.                                                             *)
(***************************************************************************)
\* DtsBuilder.__init__(f): a builder over a fresh, empty sink
DtsBuilder_init == f' = <<>> /\ nesting' = 0

\* _write_line(line), where n is the value of self._nesting when it is called
write_line(n, line) == f' = Append(f, Spaces(4 * n) \o line)

header == write_line(nesting, S_DtsV1) /\ UNCHANGED nesting

open_node(name) ==
    /\ write_line(nesting, name \o S_OpenMarker)
    /\ nesting' = nesting + 1

\* a close_node that writes the marker before it decrements the counter
close_node_late ==
    /\ write_line(nesting, S_CloseMarker)
    /\ nesting' = nesting - 1

close_node ==
    /\ nesting' = nesting - 1
    /\ write_line(nesting - 1, S_CloseMarker)

\* node(name), a generator-based context manager: entering runs up to the yield
node_enter(name) == open_node(name)
\* the body completed: the generator is resumed after the yield
node_exit == close_node
\* the body raised: the error is thrown into the generator at the yield, which
\* has no try/finally around it, so the generator ends there and the error
\* propagates
node_exit_error == UNCHANGED <<f, nesting>>

CellValues(cells, as_hex) ==
    [i \in 1..Len(cells) |-> IF as_hex THEN FormatHex(cells[i]) ELSE FormatDec(cells[i])]

cells_prop(name, cells, as_hex) ==
    /\ write_line(nesting, name \o S_CellsBegin \o Join(CellValues(cells, as_hex))
                           \o S_CellsEnd)
    /\ UNCHANGED nesting

string_prop(name, value) ==
    /\ write_line(nesting, name \o S_Assign \o <<QUOTE>> \o Translate(value)
                           \o <<QUOTE>> \o S_Semicolon)
    /\ UNCHANGED nesting

incbin_prop(name, path) ==
    /\ write_line(nesting, name \o S_IncbinBegin \o <<QUOTE>> \o Translate(path)
                           \o <<QUOTE>> \o S_IncbinEnd)
    /\ UNCHANGED nesting

(***************************************************************************)
(* Reading the emitted text back.                                          *)
(***************************************************************************)
\* number of leading spaces of a line
RECURSIVE IndentFrom(_, _)
IndentFrom(line, i) ==
    IF i <= Len(line) /\ line[i] = " " THEN IndentFrom(line, i + 1) ELSE i - 1

Indent(line) == IndentFrom(line, 1)

Strip(line) == SubSeq(line, Indent(line) + 1, Len(line))

\* an opening marker 'name {' and a closing marker '};'
IsOpen(line) ==
    /\ Len(line) >= 2
    /\ line[Len(line)] = "{" /\ line[Len(line) - 1] = " "
IsClose(line) ==
    /\ Len(line) >= 2
    /\ line[Len(line)] = ";" /\ line[Len(line) - 1] = "}"
    /\ Strip(line) = S_CloseMarker
\* the name of the node an opening marker opens
OpenName(line) == SubSeq(Strip(line), 1, Len(Strip(line)) - 2)

Opens(ff) == Cardinality({i \in 1..Len(ff) : IsOpen(ff[i])})
Closes(ff) == Cardinality({i \in 1..Len(ff) : IsClose(ff[i])})

\* nesting depth of line i as the text itself shows it: the markers opened and
\* not closed before it (a closing marker stands at the depth of its opener)
DepthAt(ff, i) ==
    Opens(SubSeq(ff, 1, i - 1)) - Closes(SubSeq(ff, 1, i - 1))
        - (IF IsClose(ff[i]) THEN 1 ELSE 0)

\* position of the first quote character of s, or 0
RECURSIVE FirstQuote(_, _)
FirstQuote(s, i) ==
    IF i > Len(s) THEN 0 ELSE IF s[i] = QUOTE THEN i ELSE FirstQuote(s, i + 1)

\* The minimal reference parser of a string literal: it starts behind the
\* opening quote at s[i], turns backslash-quote back into a quote (the reverse
\* of DTS_TRANS), copies every other character, and ends at the first quote
\* that is not escaped. rest is what follows the closing quote.
RECURSIVE ScanLiteral(_, _, _)
ScanLiteral(s, i, acc) ==
    IF i > Len(s) THEN [ok |-> FALSE, value |-> acc, rest |-> <<>>]
    ELSE IF s[i] = BACKSLASH /\ i < Len(s) /\ s[i + 1] = QUOTE
        THEN ScanLiteral(s, i + 2, Append(acc, QUOTE))
    ELSE IF s[i] = QUOTE
        THEN [ok |-> TRUE, value |-> acc, rest |-> SubSeq(s, i + 1, Len(s))]
    ELSE ScanLiteral(s, i + 1, Append(acc, s[i]))

\* the literal of a property line, re-parsed
ParseLiteral(line) ==
    IF FirstQuote(line, 1) = 0 THEN [ok |-> FALSE, value |-> <<>>, rest |-> <<>>]
    ELSE ScanLiteral(line, FirstQuote(line, 1) + 1, <<>>)

(***************************************************************************)
(* A client of DtsBuilder: any program that drives one builder, either     *)
(* through the scoped node() wrapper or by calling open_node / close_node  *)
(* itself, and emits properties in between.                                *)
(***************************************************************************)
NoTmp == <<>>

\* the characters the client's string values are made of
ValAlphabet == {"a", QUOTE, BACKSLASH}

RECURSIVE SeqsUpTo(_, _)
SeqsUpTo(S, n) ==
    IF n = 0 THEN {<<>>}
    ELSE SeqsUpTo(S, n - 1)
            \cup {Append(s, c) : s \in {t \in SeqsUpTo(S, n - 1) : Len(t) = n - 1}, c \in S}

Values == SeqsUpTo(ValAlphabet, MaxValLen)

NodeName == S_n
PropName == S_p
ClientCells == <<0, 255, 4096>>

\* the run's variables while only a builder is driven
RunIdle ==
    /\ profile = [name |-> <<>>, arch |-> <<>>, tftp |-> <<>>]
    /\ sysroot = <<>>
    /\ links = FALSE
    /\ idx = 0
    /\ pc = "builder"
    /\ ip = 0
    /\ tmp = NoTmp
    /\ tmpFiles = {}
    /\ outFiles = {}
    /\ outDirs = {}
    /\ exc = "none"
    /\ status = "running"
    /\ produced = <<>>

InitBuilder ==
    /\ f = <<>>
    /\ nesting = 0
    /\ scopes = <<>>
    /\ raised = FALSE
    /\ manual \in BOOLEAN
    /\ val \in Values
    /\ props = <<>>
    /\ RunIdle

CanWrite == ~raised /\ Len(f) < MaxLines

ClientHeader ==
    /\ CanWrite /\ f = <<>>
    /\ header
    /\ UNCHANGED <<clientVars, runVars>>

\* with its.node(name): ...   (entering)
ClientEnter ==
    /\ CanWrite /\ ~manual
    /\ node_enter(NodeName)
    /\ scopes' = Append(scopes, nesting)
    /\ UNCHANGED <<raised, manual, val, props, runVars>>

\* the body of the innermost scope completes normally
ClientExit ==
    /\ CanWrite /\ ~manual /\ scopes # <<>>
    /\ node_exit
    /\ scopes' = SubSeq(scopes, 1, Len(scopes) - 1)
    /\ UNCHANGED <<raised, manual, val, props, runVars>>

\* the body of the innermost scope raises an error
ClientRaise ==
    /\ ~raised /\ ~manual /\ scopes # <<>>
    /\ raised' = TRUE
    /\ UNCHANGED <<builderVars, scopes, manual, val, props, runVars>>

\* the error leaves the innermost scope
ClientUnwind ==
    /\ raised /\ scopes # <<>>
    /\ node_exit_error
    /\ scopes' = SubSeq(scopes, 1, Len(scopes) - 1)
    /\ UNCHANGED <<raised, manual, val, props, runVars>>

\* its.open_node(name), called directly
ClientOpenNode ==
    /\ CanWrite /\ manual
    /\ open_node(NodeName)
    /\ UNCHANGED <<clientVars, runVars>>

\* its.close_node(), called directly
ClientCloseNode ==
    /\ CanWrite /\ manual
    /\ close_node
    /\ UNCHANGED <<clientVars, runVars>>

ClientStringProp ==
    /\ CanWrite
    /\ string_prop(PropName, val)
    /\ props' = Append(props, [line |-> Len(f) + 1, op |-> "string", value |-> val])
    /\ UNCHANGED <<scopes, raised, manual, val, runVars>>

ClientIncbinProp ==
    /\ CanWrite
    /\ incbin_prop(PropName, val)
    /\ props' = Append(props, [line |-> Len(f) + 1, op |-> "incbin", value |-> val])
    /\ UNCHANGED <<scopes, raised, manual, val, runVars>>

ClientCellsProp ==
    /\ CanWrite
    /\ \E as_hex \in BOOLEAN : cells_prop(PropName, ClientCells, as_hex)
    /\ UNCHANGED <<clientVars, runVars>>

NextBuilder ==
    \/ ClientHeader
    \/ ClientEnter
    \/ ClientExit
    \/ ClientRaise
    \/ ClientUnwind
    \/ ClientOpenNode
    \/ ClientCloseNode
    \/ ClientStringProp
    \/ ClientIncbinProp
    \/ ClientCellsProp

SpecBuilder == InitBuilder /\ [][NextBuilder]_vars

(***************************************************************************)
(* Properties of the builder under its clients (SpecBuilder).              *)
(***************************************************************************)
Range(s) == {s[i] : i \in 1..Len(s)}

\* C1: when the builder is driven only through node() and every body completes
\* normally, each line is indented by 4 spaces per level of the nesting the
\* text shows at that line, the counter equals the number of scopes still
\* active, and once the outermost scope has exited the counter is 0 and the
\* text holds as many opening as closing markers.
C1_BalancedNesting ==
    (pc = "builder" /\ ~manual /\ ~raised) =>
        /\ nesting = Len(scopes)
        /\ \A i \in 1..Len(f) : Indent(f[i]) = 4 * DepthAt(f, i)
        /\ scopes = <<>> => (nesting = 0 /\ Opens(f) = Closes(f))

\* C1 witness: two scopes were entered and left, one nested in the other or
\* with a property inside, and nothing is open any more.
C1_Witness ==
    /\ pc = "builder" /\ ~manual /\ ~raised
    /\ scopes = <<>>
    /\ Opens(f) >= 1 /\ Closes(f) = Opens(f)
    /\ \E i \in 1..Len(f) : Indent(f[i]) = 4 /\ ~IsOpen(f[i]) /\ ~IsClose(f[i])

\* C2: when the body of a node() scope raises, every scope the error has left
\* was closed: the counter and the markers still open in the text both equal
\* the number of scopes still active.
C2_CloseOnError ==
    (pc = "builder" /\ ~manual /\ raised) =>
        /\ nesting = Len(scopes)
        /\ Opens(f) - Closes(f) = Len(scopes)

\* C4: close_node with no node open fails without effect: the counter is never
\* negative and no prefix of the text holds more closing than opening markers.
C4_CloseFailsFast ==
    pc = "builder" =>
        /\ nesting >= 0
        /\ \A i \in 1..Len(f) : Closes(SubSeq(f, 1, i)) <= Opens(SubSeq(f, 1, i))

\* C8: every string_prop / incbin_prop literal whose value contains a quote
\* re-parses to exactly that value, the literal ending at its final quote.
C8_EscapeRoundTrip ==
    \A k \in 1..Len(props) :
        LET r == ParseLiteral(f[props[k].line]) IN
        QUOTE \in Range(props[k].value) =>
            /\ r.ok
            /\ r.value = props[k].value
            /\ r.rest = (IF props[k].op = "string" THEN S_Semicolon ELSE S_IncbinEnd)

(***************************************************************************)
(* Paths (posixpath) and the filesystem they are resolved against.         *)
(***************************************************************************)
SLASH == "/"

\* os.path.join(a, b)
PathJoin(a, b) ==
    IF b # <<>> /\ Head(b) = SLASH THEN b
    ELSE IF a = <<>> \/ a[Len(a)] = SLASH THEN a \o b
    ELSE a \o <<SLASH>> \o b

\* position of the last slash of p[1..i], or 0
RECURSIVE LastSlash(_, _)
LastSlash(p, i) ==
    IF i = 0 THEN 0 ELSE IF p[i] = SLASH THEN i ELSE LastSlash(p, i - 1)

\* os.path.basename(p)
Basename(p) == SubSeq(p, LastSlash(p, Len(p)) + 1, Len(p))

\* os.path.dirname(p): the head up to the last slash, trailing slashes dropped
\* unless it is the root
Dirname(p) ==
    LET i == LastSlash(p, Len(p)) IN
    IF i <= 1 THEN SubSeq(p, 1, i) ELSE SubSeq(p, 1, i - 1)

\* the working directory of the process and the place symlinked trees live in
Cwd == S_Cwd
Store == S_Store

\* os.path.realpath(p): the path made absolute against the working directory,
\* and led through the symlink when the tree is symlinked
Realpath(p) ==
    LET abs == IF p # <<>> /\ Head(p) = SLASH THEN p ELSE PathJoin(Cwd, p) IN
    IF links THEN Store \o abs ELSE abs

(***************************************************************************)
(* Actions and profiles.                                                   *)
(***************************************************************************)
NoField == <<>>

\* Copy(src, subdir=None)
Copy(src, subdir) ==
    [type |-> "Copy", src |-> src,
     dest |-> IF subdir # NoField THEN PathJoin(subdir, Basename(src)) ELSE Basename(src),
     data |-> NoField, prekernel |-> NoField, dtb |-> NoField, load_address |-> 0]

\* CopyData(dest, data)
CopyData(dest, data) ==
    [type |-> "CopyData", src |-> NoField, dest |-> dest, data |-> data,
     prekernel |-> NoField, dtb |-> NoField, load_address |-> 0]

\* GenInitrd(dest)
GenInitrd(dest) ==
    [type |-> "GenInitrd", src |-> NoField, dest |-> dest, data |-> NoField,
     prekernel |-> NoField, dtb |-> NoField, load_address |-> 0]

\* FitImage(dest, prekernel=..., dtb=..., load_address=...)
FitImage(dest, prekernel, dtb, load_address) ==
    [type |-> "FitImage", src |-> NoField, dest |-> dest, data |-> NoField,
     prekernel |-> prekernel, dtb |-> dtb, load_address |-> load_address]

\* Profile(name, arch=..., tftp=...)
Profile(name, arch, tftp) == [name |-> name, arch |-> arch, tftp |-> tftp]

\* load_address=0x11000000 of the bpi-f3 profile, and a second address
LoadAddrBpiF3 == 285212672
LoadAddrOther == LoadAddrBpiF3 + 4096

\* the device-tree blob of the bpi-f3 profile, and one whose base filename is
\* that of the ramdisk image
DtbBpiF3 == S_K1Dtb
DtbPaths == {DtbBpiF3, S_BootInitrdCpio}

\* the FitImage of the bpi-f3 profile, the same at a second load address, and
\* the same with the other device-tree blob
FitImages ==
    {FitImage(S_BpiF3Itb, S_EirVirtBin, d, LoadAddrBpiF3) :
        d \in DtbPaths}
    \cup {FitImage(S_BpiF3Itb, S_EirVirtBin, DtbBpiF3,
                   LoadAddrOther)}

\* the actions profiles are made of
Actions ==
    {Copy(S_HighperiDtbo, S_overlays),
     GenInitrd(S_InitrdCpio),
     CopyData(S_CmdlineTxt, S_serial)}
        \cup FitImages

ActionLists == {l \in SeqsUpTo(Actions, MaxActions) : l # <<>>}

\* the boards of the profile table with their architectures, each with any
\* list of actions
Profiles ==
    {Profile(S_raspi4, S_aarch64, l) : l \in ActionLists}
        \cup {Profile(S_BpiF3, S_riscv64, l) : l \in ActionLists}

\* --sysroot: its default "/"
Sysroots == {S_Root}

\* -o / --out
OutDir == S_out

\* the names tempfile gives a temporary directory
TmpNames == {S_TmpA, S_TmpB}

(***************************************************************************)
(* FitImage._build_its, statement by statement.                            *)
(***************************************************************************)
St(op, name, value, cells, as_hex) ==
    [op |-> op, name |-> name, value |-> value, cells |-> cells, as_hex |-> as_hex]

StHeader == St("header", <<>>, <<>>, <<>>, FALSE)
StCheck == St("check", <<>>, <<>>, <<>>, FALSE)
StEnter(name) == St("enter", name, <<>>, <<>>, FALSE)
StExit == St("exit", <<>>, <<>>, <<>>, FALSE)
StString(name, value) == St("string", name, value, <<>>, FALSE)
StIncbin(name, path) == St("incbin", name, path, <<>>, FALSE)
StCells(name, cells, as_hex) == St("cells", name, <<>>, cells, as_hex)

NoArch == <<>>

\* {"riscv64": "riscv"}.get(arch)
FitArch(arch) == IF arch = S_riscv64 THEN S_riscv ELSE NoArch

InitrdName == S_InitrdCpio

\* the data of the ramdisk image named by its place in the temporary directory
InitrdDataInTmp == PathJoin(tmp, InitrdName)

\* the data of the ramdisk image: the bare file name
InitrdData == InitrdName

\* with its.node(prekernel_name): ...
PrekernelNode(self, fit_arch, prekernel_name, prekernel_path) ==
    <<StEnter(prekernel_name),
      StString(S_description, S_ManagarmPrekernel),
      StIncbin(S_data, Realpath(prekernel_path)),
      StString(S_type, S_kernel),
      StString(S_arch, fit_arch),
      StString(S_os, S_linux),
      StString(S_compression, S_none),
      StCells(S_load, <<self.load_address>>, TRUE),
      StCells(S_entry, <<self.load_address>>, TRUE),
      StExit>>

\* with its.node("initrd.cpio"): ...
InitrdNode(fit_arch) ==
    <<StEnter(InitrdName),
      StString(S_description, S_ManagarmInitrd),
      StIncbin(S_data, InitrdData),
      StString(S_type, S_ramdisk),
      StString(S_arch, fit_arch),
      StString(S_os, S_linux),
      StString(S_compression, S_none),
      StExit>>

\* with its.node(dtb_name): ...
DtbNode(fit_arch, dtb_name, dtb_path) ==
    <<StEnter(dtb_name),
      StString(S_description, S_FDT),
      StIncbin(S_data, Realpath(dtb_path)),
      StString(S_type, S_flat_dt),
      StString(S_arch, fit_arch),
      StString(S_compression, S_none),
      StExit>>

\* a configuration node whose references name the roles, not the images
ConfigurationNodeByRole(board, prekernel_name, dtb_name) ==
    <<StEnter(board),
      StString(S_description, S_ManagarmOn \o board),
      StString(S_kernel, S_kernel),
      StString(S_ramdisk, S_ramdisk),
      StString(S_fdt, S_flat_dt),
      StExit>>

\* with its.node(f"{board}"): ...
ConfigurationNode(board, prekernel_name, dtb_name) ==
    <<StEnter(board),
      StString(S_description, S_ManagarmOn \o board),
      StString(S_kernel, prekernel_name),
      StString(S_ramdisk, InitrdName),
      StString(S_fdt, dtb_name),
      StExit>>

\* the statements of _build_its(f, board, arch, prekernel_path, dtb_path) behind
\* the construction of the builder
BuildIts(self, board, arch, prekernel_path, dtb_path) ==
    LET prekernel_name == Basename(prekernel_path)
        dtb_name == Basename(dtb_path)
        fit_arch == FitArch(arch)
    IN  <<StHeader, StCheck,
          StEnter(S_Root),
          StString(S_description, S_ManagarmFitImageFor \o board),
          StCells(S_address_cells, <<1>>, FALSE),
          StEnter(S_images)>>
        \o PrekernelNode(self, fit_arch, prekernel_name, prekernel_path)
        \o InitrdNode(fit_arch)
        \o DtbNode(fit_arch, dtb_name, dtb_path)
        \o <<StExit,
             StEnter(S_configurations),
             StString(S_default, board)>>
        \o ConfigurationNode(board, prekernel_name, dtb_name)
        \o <<StExit, StExit>>

(***************************************************************************)
(* gen_tftp and the actions' execute().                                    *)
(***************************************************************************)
\* the action the loop of gen_tftp is at
Action == profile.tftp[idx]

InLoop == pc = "idle" /\ status = "running" /\ idx <= Len(profile.tftp)

\* dest_abs = os.path.join(out, self.dest)
DestAbs(a) == PathJoin(OutDir, a.dest)
\* prekernel_abs, dtb_abs of FitImage.execute
PrekernelAbs == PathJoin(sysroot, S_EirVirtBin)
DtbAbs(a) == PathJoin(sysroot, a.dtb)

ItsName == S_ImageIts

\* a file written at path, replacing what was there
WithFile(files, path, state) ==
    {e \in files : e[1] # path} \cup {<<path, state>>}

\* what an external process that exits non-zero may leave at its output path:
\* nothing new, or a partly written file
AfterFailedTool(files, path) == {files, WithFile(files, path, "partial")}

Init ==
    /\ f = <<>>
    /\ nesting = 0
    /\ scopes = <<>>
    /\ raised = FALSE
    /\ manual = FALSE
    /\ val = <<>>
    /\ props = <<>>
    /\ profile \in Profiles
    /\ sysroot \in Sysroots
    /\ links \in BOOLEAN
    /\ idx = 1
    /\ pc = "idle"
    /\ ip = 0
    /\ tmp = NoTmp
    /\ tmpFiles = {}
    /\ outFiles = {}
    /\ outDirs = {OutDir}
    /\ exc = "none"
    /\ status = "running"
    /\ produced = <<>>

\* the action returned: the loop goes on to the next one
NextAction == idx' = idx + 1 /\ pc' = "idle" /\ UNCHANGED <<exc, status>>

\* the action raised: the error leaves gen_tftp and main, the run has failed
Fail(e) == exc' = e /\ status' = "failed" /\ pc' = "idle" /\ UNCHANGED idx

\* Copy.execute: the source file is there, or copyfile raises
CopyExecute ==
    /\ InLoop /\ Action.type = "Copy"
    /\ outDirs' = outDirs \cup {Dirname(DestAbs(Action))}
    /\ \/ /\ outFiles' = WithFile(outFiles, DestAbs(Action), "complete")
          /\ NextAction
       \/ /\ outFiles' = outFiles
          /\ Fail("OSError")
    /\ UNCHANGED <<builderVars, clientVars, profile, sysroot, links, ip, tmp, tmpFiles,
                   produced>>

\* CopyData.execute
CopyDataExecute ==
    /\ InLoop /\ Action.type = "CopyData"
    /\ outFiles' = WithFile(outFiles, DestAbs(Action), "complete")
    /\ NextAction
    /\ UNCHANGED <<builderVars, clientVars, profile, sysroot, links, ip, tmp, tmpFiles,
                   outDirs, produced>>

\* GenInitrd.execute: gen_initrd runs the helper with check=True
GenInitrdExecute ==
    /\ InLoop /\ Action.type = "GenInitrd"
    /\ outDirs' = outDirs \cup {Dirname(DestAbs(Action))}
    /\ \/ /\ outFiles' = WithFile(outFiles, DestAbs(Action), "complete")
          /\ NextAction
       \/ /\ outFiles' \in AfterFailedTool(outFiles, DestAbs(Action))
          /\ Fail("CalledProcessError")
    /\ UNCHANGED <<builderVars, clientVars, profile, sysroot, links, ip, tmp, tmpFiles,
                   produced>>

\* FitImage.execute up to the entry of `with tempfile.TemporaryDirectory() as tmp`
FitEnter ==
    /\ InLoop /\ Action.type = "FitImage"
    /\ outDirs' = outDirs \cup {Dirname(DestAbs(Action))}
    /\ tmp' \in TmpNames
    /\ tmpFiles' = {}
    /\ pc' = "fit_initrd"
    /\ UNCHANGED <<builderVars, clientVars, profile, sysroot, links, idx, ip, outFiles,
                   exc, status, produced>>

\* gen_initrd(initrd_path, ...)
FitGenInitrd ==
    /\ pc = "fit_initrd"
    /\ \/ /\ tmpFiles' = WithFile(tmpFiles, InitrdName, "complete")
          /\ pc' = "fit_open"
          /\ exc' = exc
       \/ /\ tmpFiles' \in AfterFailedTool(tmpFiles, InitrdName)
          /\ pc' = "fit_cleanup"
          /\ exc' = "CalledProcessError"
    /\ UNCHANGED <<builderVars, clientVars, profile, sysroot, links, idx, ip, tmp,
                   outFiles, outDirs, status, produced>>

\* with open(its_path, "w") as f, and its = DtsBuilder(f) of _build_its
FitOpenIts ==
    /\ pc = "fit_open"
    /\ tmpFiles' = WithFile(tmpFiles, ItsName, "complete")
    /\ DtsBuilder_init
    /\ ip' = 1
    /\ pc' = "its"
    /\ UNCHANGED <<clientVars, profile, sysroot, links, idx, tmp, outFiles, outDirs, exc,
                   status, produced>>

\* the statements of the _build_its call in progress
ItsOps == BuildIts(Action, profile.name, profile.arch, PrekernelAbs, DtbAbs(Action))

StReturn == St("return", <<>>, <<>>, <<>>, FALSE)

\* the statement to execute next
ItsStatement == LET ops == ItsOps IN IF ip <= Len(ops) THEN ops[ip] ELSE StReturn

Advance == ip' = ip + 1 /\ UNCHANGED <<pc, exc, produced>>

ItsHeader(st) ==
    /\ st.op = "header"
    /\ header
    /\ Advance

\* if fit_arch is None: raise RuntimeError(...)
ItsCheckArch(st) ==
    /\ st.op = "check"
    /\ IF FitArch(profile.arch) = NoArch
       THEN exc' = "RuntimeError" /\ pc' = "fit_close" /\ ip' = ip
       ELSE exc' = exc /\ pc' = pc /\ ip' = ip + 1
    /\ UNCHANGED <<builderVars, produced>>

ItsNodeEnter(st) ==
    /\ st.op = "enter"
    /\ node_enter(st.name)
    /\ Advance

ItsNodeExit(st) ==
    /\ st.op = "exit"
    /\ node_exit
    /\ Advance

ItsStringProp(st) ==
    /\ st.op = "string"
    /\ string_prop(st.name, st.value)
    /\ Advance

ItsIncbinProp(st) ==
    /\ st.op = "incbin"
    /\ incbin_prop(st.name, st.value)
    /\ Advance

ItsCellsProp(st) ==
    /\ st.op = "cells"
    /\ cells_prop(st.name, st.cells, st.as_hex)
    /\ Advance

\* _build_its returns; the log keeps what it was given and what it wrote
ItsReturn(st) ==
    /\ st.op = "return"
    /\ produced' = Append(produced,
            [board |-> profile.name, arch |-> profile.arch,
             prekernel_path |-> PrekernelAbs, dtb_path |-> DtbAbs(Action),
             load_address |-> Action.load_address,
             prekernel_real |-> Realpath(PrekernelAbs),
             dtb_real |-> Realpath(DtbAbs(Action)),
             text |-> f])
    /\ pc' = "fit_close"
    /\ UNCHANGED <<builderVars, ip, exc>>

\* one statement of _build_its
ItsStep ==
    /\ pc = "its"
    /\ LET st == ItsStatement IN
        \/ ItsHeader(st)
        \/ ItsCheckArch(st)
        \/ ItsNodeEnter(st)
        \/ ItsNodeExit(st)
        \/ ItsStringProp(st)
        \/ ItsIncbinProp(st)
        \/ ItsCellsProp(st)
        \/ ItsReturn(st)
    /\ UNCHANGED <<clientVars, profile, sysroot, links, idx, tmp, tmpFiles, outFiles,
                   outDirs, status>>

\* the end of `with open(its_path, "w") as f`, left normally or by an error
FitCloseIts ==
    /\ pc = "fit_close"
    /\ pc' = IF exc = "none" THEN "fit_mkimage" ELSE "fit_cleanup"
    /\ UNCHANGED <<builderVars, clientVars, profile, sysroot, links, idx, ip, tmp,
                   tmpFiles, outFiles, outDirs, exc, status, produced>>

\* subprocess.run(["mkimage", "--fit", its_path, dest_abs], check=True)
FitMkimage ==
    /\ pc = "fit_mkimage"
    /\ \/ /\ outFiles' = WithFile(outFiles, DestAbs(Action), "complete")
          /\ exc' = exc
       \/ /\ outFiles' \in AfterFailedTool(outFiles, DestAbs(Action))
          /\ exc' = "CalledProcessError"
    /\ pc' = "fit_cleanup"
    /\ UNCHANGED <<builderVars, clientVars, profile, sysroot, links, idx, ip, tmp,
                   tmpFiles, outDirs, status, produced>>

\* a TemporaryDirectory that is removed only when the block ends normally
TemporaryDirectoryExitOnSuccess ==
    IF exc = "none"
    THEN tmp' = NoTmp /\ tmpFiles' = {} /\ f' = <<>>
    ELSE UNCHANGED <<tmp, tmpFiles, f>>

\* TemporaryDirectory.__exit__: the directory and the files in it are removed
TemporaryDirectoryExit == tmp' = NoTmp /\ tmpFiles' = {} /\ f' = <<>>

\* the end of `with tempfile.TemporaryDirectory() as tmp`, and of execute
FitCleanup ==
    /\ pc = "fit_cleanup"
    /\ TemporaryDirectoryExit
    /\ IF exc = "none" THEN NextAction ELSE Fail(exc)
    /\ UNCHANGED <<nesting, clientVars, profile, sysroot, links, ip, outFiles, outDirs,
                   produced>>

\* the filesystem changes between two actions: the tree becomes a symlinked one
FsRelink ==
    /\ InLoop /\ idx > 1 /\ ~links
    /\ links' = TRUE
    /\ UNCHANGED <<builderVars, clientVars, profile, sysroot, idx, pc, ip, tmp, tmpFiles,
                   outFiles, outDirs, exc, status, produced>>

\* the loop of gen_tftp has run every action
Finish ==
    /\ pc = "idle" /\ status = "running" /\ idx > Len(profile.tftp)
    /\ status' = "done"
    /\ UNCHANGED <<builderVars, clientVars, profile, sysroot, links, idx, pc, ip, tmp,
                   tmpFiles, outFiles, outDirs, exc, produced>>

Next ==
    \/ CopyExecute
    \/ CopyDataExecute
    \/ GenInitrdExecute
    \/ FitEnter
    \/ FitGenInitrd
    \/ FitOpenIts
    \/ ItsStep
    \/ FitCloseIts
    \/ FitMkimage
    \/ FitCleanup
    \/ FsRelink
    \/ Finish

Spec == Init /\ [][Next]_vars

(***************************************************************************)
(* Properties of a run of gen_tftp (Spec).                                 *)
(***************************************************************************)
\* line is the string property `name = "..."`
IsStringProp(line, name) ==
    LET n == Indent(line)
        head == name \o S_Assign \o <<QUOTE>>
    IN  /\ Len(line) >= n + Len(head)
        /\ line[n + 1] = name[1]
        /\ SubSeq(line, n + 1, n + Len(head)) = head

\* the closing marker that matches the opening marker at line i, or 0
CloseOf(t, i) ==
    LET js == {j \in (i + 1)..Len(t) : IsClose(t[j]) /\ Indent(t[j]) = Indent(t[i])} IN
    IF js = {} THEN 0 ELSE CHOOSE j \in js : \A k \in js : j <= k

\* the lines that open the node `name` at the given depth
NodeLines(t, name, depth) ==
    {i \in 1..Len(t) : IsOpen(t[i]) /\ OpenName(t[i]) = name /\ DepthAt(t, i) = depth}

\* the lines that declare an image: the children of an `images` node
ImageLines(t) ==
    {k \in 1..Len(t) :
        /\ IsOpen(t[k]) /\ DepthAt(t, k) = 2
        /\ \E i \in NodeLines(t, S_images, 1) :
              i < k /\ (CloseOf(t, i) = 0 \/ k < CloseOf(t, i))}

\* the names of the images declared in an `images` node closed before line n
DeclaredBefore(t, n) ==
    {OpenName(t[k]) : k \in {k \in ImageLines(t) :
        \E i \in NodeLines(t, S_images, 1) :
            i < k /\ CloseOf(t, i) > k /\ CloseOf(t, i) < n}}

\* line i is a cross-reference that names the declared image `name`
RefersTo(t, i, name) ==
    /\ ParseLiteral(t[i]).ok
    /\ ParseLiteral(t[i]).value = name
    /\ name \in DeclaredBefore(t, i)
    /\ DepthAt(t, i) = 3

\* C3: when _build_its raises for an architecture that is not in the table,
\* nothing has been written to the descriptor sink and no descriptor file exists.
C3_NothingWrittenOnBadArch ==
    (pc = "fit_close" /\ exc = "RuntimeError") =>
        /\ f = <<>>
        /\ \A e \in tmpFiles : e[1] # S_ImageIts

\* C5 as claimed: two descriptors built from the same board, architecture,
\* kernel path and device-tree path are the same text.
C5_SameFourInputsSameText ==
    \A i, j \in 1..Len(produced) :
        (/\ produced[i].board = produced[j].board
         /\ produced[i].arch = produced[j].arch
         /\ produced[i].prekernel_path = produced[j].prekernel_path
         /\ produced[i].dtb_path = produced[j].dtb_path)
            => produced[i].text = produced[j].text

\* C5 amended: two descriptors built from the same board, architecture, kernel
\* path and device-tree path, by FitImage instances with the same load_address,
\* while the filesystem resolves the two paths to the same canonical paths, are
\* the same text.
C5_Deterministic ==
    \A i, j \in 1..Len(produced) :
        (/\ produced[i].board = produced[j].board
         /\ produced[i].arch = produced[j].arch
         /\ produced[i].prekernel_path = produced[j].prekernel_path
         /\ produced[i].dtb_path = produced[j].dtb_path
         /\ produced[i].load_address = produced[j].load_address
         /\ produced[i].prekernel_real = produced[j].prekernel_real
         /\ produced[i].dtb_real = produced[j].dtb_real)
            => produced[i].text = produced[j].text

\* C5 witness: _build_its has returned twice for the same inputs.
C5_Witness ==
    /\ Len(produced) = 2
    /\ produced[1].dtb_path = produced[2].dtb_path
    /\ produced[1].load_address = produced[2].load_address
    /\ produced[1].dtb_real = produced[2].dtb_real
    /\ produced[1].text = produced[2].text
    /\ Len(produced[1].text) > 1

\* C6: in the descriptor _build_its has written when it returns, the
\* `configurations` node is opened only after the `images` node was closed,
\* `default` names the board inside `configurations`, and the board's node,
\* which follows it, holds the kernel, ramdisk and fdt properties, each naming
\* an image declared in the closed `images` node: the base filename of the
\* kernel path, initrd.cpio and the base filename of the device-tree path.
C6_CrossReferences ==
    (pc = "fit_mkimage") =>
        LET images == NodeLines(f, S_images, 1)
            configurations == NodeLines(f, S_configurations, 1)
            boards == NodeLines(f, profile.name, 2)
            Props(name) == {i \in 1..Len(f) : IsStringProp(f[i], name)}
            defaults == Props(S_default)
            kernels == Props(S_kernel)
            ramdisks == Props(S_ramdisk)
            fdts == Props(S_fdt)
        IN
        /\ Cardinality(images) = 1 /\ Cardinality(configurations) = 1
        /\ Cardinality(boards) = 1 /\ Cardinality(defaults) = 1
        /\ Cardinality(kernels) = 1 /\ Cardinality(ramdisks) = 1 /\ Cardinality(fdts) = 1
        /\ \A c \in configurations :
            /\ \A k \in images : CloseOf(f, k) > k /\ CloseOf(f, k) < c
            /\ \A d \in defaults :
                /\ c < d /\ d < CloseOf(f, c)
                /\ ParseLiteral(f[d]).ok /\ ParseLiteral(f[d]).value = profile.name
                /\ \A b \in boards :
                    /\ d < b /\ CloseOf(f, b) < CloseOf(f, c)
                    /\ \A r \in kernels \cup ramdisks \cup fdts : b < r /\ r < CloseOf(f, b)
        /\ \A i \in kernels : RefersTo(f, i, Basename(PrekernelAbs))
        /\ \A i \in ramdisks : RefersTo(f, i, S_InitrdCpio)
        /\ \A i \in fdts : RefersTo(f, i, Basename(DtbAbs(Action)))

\* C6 witness: the descriptor of the bpi-f3 profile's FitImage is finished and
\* its fdt reference names the declared k1-x_deb1.dtb node.
C6_Witness ==
    /\ pc = "fit_mkimage"
    /\ Action.dtb = S_K1Dtb
    /\ \E i \in 1..Len(f) :
        IsStringProp(f[i], S_fdt) /\ RefersTo(f, i, Basename(S_K1Dtb))

\* C7: the image nodes of a descriptor have pairwise distinct names.
C7_DistinctImageNames ==
    \A n \in 1..Len(produced) :
        LET t == produced[n].text IN
        \A i, j \in ImageLines(t) : i # j => OpenName(t[i]) # OpenName(t[j])

\* C9: when an external process exits non-zero, the run has stopped at the
\* failed action and the output location holds no file at that action's
\* destination.
C9_NoPartialOutput ==
    (status = "failed" /\ exc = "CalledProcessError") =>
        /\ idx <= Len(profile.tftp)
        /\ \A e \in outFiles : e[1] # DestAbs(Action)

\* C10: the temporary directory is alive only inside FitImage.execute: between
\* actions, and once the run has ended, successfully or not, it does not exist.
C10_TmpScoped ==
    /\ (pc = "idle" \/ status # "running") => (tmp = NoTmp /\ tmpFiles = {})
    /\ tmp # NoTmp =>
        /\ Action.type = "FitImage"
        /\ pc \in {"fit_initrd", "fit_open", "its", "fit_close", "fit_mkimage", "fit_cleanup"}

\* C10 witness: a FitImage action has failed and its directory is gone.
C10_Witness ==
    /\ status = "failed"
    /\ Action.type = "FitImage"
    /\ exc \in {"CalledProcessError", "RuntimeError"}
    /\ tmp = NoTmp

====
